---- MODULE Spec2Model ----
(***************************************************************************)
(* Verification model of aicore-router (src/src/config.rs, src/src/cli.rs) *)
(* and of the control plane described in spec.md: configuration loading,   *)
(* CLI / server startup, token manager, load balancer and the failover     *)
(* dispatcher.                                                             *)
(*                                                                         *)
(* Strings on which the code works character by character (URLs, the       *)
(* API_KEYS environment variable, API keys) are sequences of one-character *)
(* strings.  Option<T> is a sequence of length at most one.                *)
(*                                                                         *)
(* Config.log_level and Config.models are copied by from_file_and_env and  *)
(* read by no operation modelled here; they are left out of the records.   *)
(***************************************************************************)
EXTENDS Integers, Sequences, FiniteSets, TLC

VARIABLES
    \* normalize_oauth_token_url applied to one input
    n_url, n_out, n_pc,
    \* Config::load / Cli::run / Cli::run_server
    file_config, env, args, pc, config, exit_error,
    load_balancer, registry_started, listener_bound,
    \* load balancer consulted by concurrent requests
    b_pc, b_order,
    \* token manager: clock, per-provider cache cell and gate, callers
    t_now, t_cache, t_inflight, t_pc, t_provider, t_result,
    \* request dispatcher: per-request state
    d_served, d_prev, d_pc, d_order, d_candidates, d_idx, d_contacted, d_outcomes,
    d_result,
    \* Config::get_fallback_model applied to one prefix
    f_prefix, f_out, f_pc

n_vars == <<n_url, n_out, n_pc>>
cli_vars == <<file_config, env, args, pc, config, exit_error,
              load_balancer, registry_started, listener_bound>>
b_vars == <<b_pc, b_order>>
t_vars == <<t_now, t_cache, t_inflight, t_pc, t_provider, t_result>>
d_vars == <<d_served, d_prev, d_pc, d_order, d_candidates, d_idx, d_contacted,
           d_outcomes, d_result>>
f_vars == <<f_prefix, f_out, f_pc>>
vars == <<n_vars, cli_vars, b_vars, t_vars, d_vars, f_vars>>
non_n_vars == <<cli_vars, b_vars, t_vars, d_vars, f_vars>>
non_cli_vars == <<n_vars, b_vars, t_vars, d_vars, f_vars>>

----------------------------------------------------------------------------
(* Bounds *)

MaxPieces == 3
MaxEnvLen == 3
MaxFileKeys == 2
MaxProviders == 2
MaxBalancedProviders == 3
MaxWeight == 2
MaxSelections == 4
MaxCallers == 2
MaxTime == 2
MaxExpiresIn == 3
MaxDispatchProviders == 3
MaxRequests == 3

----------------------------------------------------------------------------
(* Option and string helpers *)

None == <<>>
Some(x) == <<x>>
IsSome(o) == o # <<>>
Unwrap(o) == o[1]

Range(s) == {s[i] : i \in 1..Len(s)}

RECURSIVE Concat(_)
Concat(ss) == IF ss = <<>> THEN <<>> ELSE Head(ss) \o Concat(Tail(ss))

SeqsUpTo(S, n) == UNION {[1..k -> S] : k \in 0..n}

\* str::contains(pat)
Contains(s, pat) ==
    \E i \in 1..(Len(s) - Len(pat) + 1) : SubSeq(s, i, i + Len(pat) - 1) = pat

\* str::ends_with(c)
EndsWith(s, c) == Len(s) > 0 /\ s[Len(s)] = c

OAuthTokenPath == <<"/", "o", "a", "u", "t", "h", "/", "t", "o", "k", "e", "n">>

----------------------------------------------------------------------------
(* normalize_oauth_token_url *)

normalize_no_collapse(url) ==
    IF ~Contains(url, OAuthTokenPath)
    THEN url \o OAuthTokenPath
    ELSE url

normalize_always_append(url) ==
    IF EndsWith(url, "/") THEN url \o Tail(OAuthTokenPath) ELSE url \o OAuthTokenPath

normalize_identity(url) == url

normalize_oauth_token_url(url) ==
    IF ~Contains(url, OAuthTokenPath) /\ ~EndsWith(url, "/")
    THEN url \o OAuthTokenPath
    ELSE IF EndsWith(url, "/") /\ ~Contains(url, OAuthTokenPath)
    THEN url \o Tail(OAuthTokenPath)
    ELSE url

\* URL inputs: concatenations of at most MaxPieces pieces
UrlPieces ==
    { <<"h">>, <<"/">>, OAuthTokenPath,
      <<"/", "o", "a", "u", "t", "h">>, <<"/", "t", "o", "k", "e", "n">>,
      <<"o", "a", "u", "t", "h", "/", "t", "o", "k", "e", "n">> }

UrlInputs == {Concat(ps) : ps \in SeqsUpTo(UrlPieces, MaxPieces)}

----------------------------------------------------------------------------
(* Config::from_file_and_env *)

default_resource_group == "default"

\* the file value shadows the environment
CredentialFileFirst(fc, envv, field) ==
    IF IsSome(fc.credentials) /\ IsSome(Unwrap(fc.credentials)[field])
    THEN Unwrap(fc.credentials)[field]
    ELSE envv

\* env::var(..).or_else(|_| credentials.<field>): the environment wins
CredentialOrEnv(fc, envv, field) ==
    IF IsSome(envv) THEN envv
    ELSE IF IsSome(fc.credentials) THEN Unwrap(fc.credentials)[field]
    ELSE None

\* disabled entries of the providers array are dropped
FileProvidersEnabledOnly(fc) ==
    LET kept == SelectSeq(fc.providers, LAMBDA p : p.enabled) IN
    [i \in 1..Len(kept) |->
        [name              |-> kept[i].name,
         uaa_token_url     |-> normalize_oauth_token_url(kept[i].uaa_token_url),
         uaa_client_id     |-> kept[i].uaa_client_id,
         uaa_client_secret |-> kept[i].uaa_client_secret,
         genai_api_url     |-> kept[i].genai_api_url,
         resource_group    |-> IF IsSome(kept[i].resource_group)
                               THEN Unwrap(kept[i].resource_group)
                               ELSE default_resource_group,
         weight            |-> kept[i].weight,
         enabled           |-> kept[i].enabled]]

\* for p in file_config.providers { providers.push(Provider {..}) }
FileProviders(fc) ==
    [i \in 1..Len(fc.providers) |->
        LET p == fc.providers[i] IN
        [name              |-> p.name,
         uaa_token_url     |-> normalize_oauth_token_url(p.uaa_token_url),
         uaa_client_id     |-> p.uaa_client_id,
         uaa_client_secret |-> p.uaa_client_secret,
         genai_api_url     |-> p.genai_api_url,
         resource_group    |-> IF IsSome(p.resource_group)
                               THEN Unwrap(p.resource_group)
                               ELSE default_resource_group,
         weight            |-> p.weight,
         enabled           |-> p.enabled]]

\* the `?` of the four required legacy fields, in source order
DefaultProviderError(fc, e) ==
    IF ~IsSome(CredentialOrEnv(fc, e.UAA_TOKEN_URL, "uaa_token_url"))
    THEN "uaa_token_url is required in config file or UAA_TOKEN_URL env var"
    ELSE IF ~IsSome(CredentialOrEnv(fc, e.UAA_CLIENT_ID, "uaa_client_id"))
    THEN "uaa_client_id is required in config file or UAA_CLIENT_ID env var"
    ELSE IF ~IsSome(CredentialOrEnv(fc, e.UAA_CLIENT_SECRET, "uaa_client_secret"))
    THEN "uaa_client_secret is required in config file or UAA_CLIENT_SECRET env var"
    ELSE IF ~IsSome(CredentialOrEnv(fc, e.GENAI_API_URL, "aicore_api_url"))
    THEN "aicore_api_url is required in config file or GENAI_API_URL env var"
    ELSE ""

DefaultProvider(fc, e) ==
    [name              |-> "default",
     uaa_token_url     |-> normalize_oauth_token_url(
                               Unwrap(CredentialOrEnv(fc, e.UAA_TOKEN_URL, "uaa_token_url"))),
     uaa_client_id     |-> Unwrap(CredentialOrEnv(fc, e.UAA_CLIENT_ID, "uaa_client_id")),
     uaa_client_secret |-> Unwrap(CredentialOrEnv(fc, e.UAA_CLIENT_SECRET, "uaa_client_secret")),
     genai_api_url     |-> Unwrap(CredentialOrEnv(fc, e.GENAI_API_URL, "aicore_api_url")),
     resource_group    |-> IF IsSome(e.RESOURCE_GROUP) THEN Unwrap(e.RESOURCE_GROUP)
                           ELSE IF IsSome(fc.resource_group) THEN Unwrap(fc.resource_group)
                           ELSE default_resource_group,
     weight            |-> 1,
     enabled           |-> TRUE]

\* str::split(',')
RECURSIVE Split(_)
Split(s) ==
    IF \A i \in 1..Len(s) : s[i] # ","
    THEN <<s>>
    ELSE LET i == CHOOSE k \in 1..Len(s) : s[k] = "," /\ \A j \in 1..(k - 1) : s[j] # ","
         IN <<SubSeq(s, 1, i - 1)>> \o Split(SubSeq(s, i + 1, Len(s)))

\* str::trim
RECURSIVE Trim(_)
Trim(s) ==
    IF s = <<>> THEN s
    ELSE IF Head(s) = " " THEN Trim(Tail(s))
    ELSE IF s[Len(s)] = " " THEN Trim(SubSeq(s, 1, Len(s) - 1))
    ELSE s

\* Iterator::filter(|s| !s.is_empty())
RECURSIVE FilterNonEmpty(_)
FilterNonEmpty(s) ==
    IF s = <<>> THEN <<>>
    ELSE IF Head(s) # <<>> THEN <<Head(s)>> \o FilterNonEmpty(Tail(s))
    ELSE FilterNonEmpty(Tail(s))

\* keys.split(',').map(|s| s.trim().to_string()).filter(|s| !s.is_empty())
ApiKeysEnvEntries(keys) ==
    LET parts == Split(keys) IN
    FilterNonEmpty([i \in 1..Len(parts) |-> Trim(parts[i])])

\* the four sources pushed in order, the legacy key only if not yet contained
CollectApiKeys(fc, e) ==
    LET k1 == IF IsSome(e.API_KEY) THEN <<Unwrap(e.API_KEY)>> ELSE <<>>
        k2 == k1 \o (IF IsSome(e.API_KEYS) THEN ApiKeysEnvEntries(Unwrap(e.API_KEYS)) ELSE <<>>)
        k3 == k2 \o fc.api_keys
    IN  IF /\ IsSome(fc.credentials)
           /\ IsSome(Unwrap(fc.credentials).api_key)
           /\ Unwrap(Unwrap(fc.credentials).api_key) \notin Range(k3)
        THEN Append(k3, Unwrap(Unwrap(fc.credentials).api_key))
        ELSE k3

RECURSIVE RetainLast(_)
RetainLast(keys) ==
    IF keys = <<>> THEN <<>>
    ELSE IF Head(keys) \in Range(Tail(keys)) THEN RetainLast(Tail(keys))
    ELSE <<Head(keys)>> \o RetainLast(Tail(keys))

\* api_keys.retain(|k| seen.insert(k.clone()))
RECURSIVE Retain(_, _)
Retain(keys, seen) ==
    IF keys = <<>> THEN <<>>
    ELSE IF Head(keys) \in seen THEN Retain(Tail(keys), seen)
    ELSE <<Head(keys)>> \o Retain(Tail(keys), seen \cup {Head(keys)})

DedupKeepLast(keys) == RetainLast(keys)

Deduplicate(keys) == Retain(keys, {})

NeverRejected(api_keys) == FALSE

\* if api_keys.is_empty() { return Err(..) }
ApiKeysRejected(api_keys) == api_keys = <<>>

\* constants::config::DEFAULT_PORT
DEFAULT_PORT == 8900

default_port == DEFAULT_PORT

\* DEFAULT_REFRESH_INTERVAL_SECS, kept symbolic; a value read from the
\* environment or the file is [secs |-> n]
default_refresh_interval_secs == [constant |-> "DEFAULT_REFRESH_INTERVAL_SECS"]

Digits == <<"0", "1", "2", "3", "4", "5", "6", "7", "8", "9">>

IsDigit(c) == \E d \in 1..Len(Digits) : Digits[d] = c

DigitValue(c) == (CHOOSE d \in 1..Len(Digits) : Digits[d] = c) - 1

RECURSIVE DecimalValue(_)
DecimalValue(s) ==
    IF s = <<>> THEN 0
    ELSE DecimalValue(SubSeq(s, 1, Len(s) - 1)) * 10 + DigitValue(s[Len(s)])

\* the digits of an unsigned FromStr input: one optional "+", then digits only
UnsignedDigits(s) == IF s # <<>> /\ Head(s) = "+" THEN Tail(s) ELSE s

IsUnsignedNumeral(s) ==
    /\ UnsignedDigits(s) # <<>>
    /\ \A i \in 1..Len(UnsignedDigits(s)) : IsDigit(UnsignedDigits(s)[i])

\* str::parse::<u16>().ok()
parse_u16(s) ==
    IF IsUnsignedNumeral(s) /\ DecimalValue(UnsignedDigits(s)) < 2^16
    THEN Some(DecimalValue(UnsignedDigits(s)))
    ELSE None

\* str::parse::<u64>().ok() and str::parse::<usize>().ok(): the numerals of
\* EnvNumerals are shorter than the shortest numeral beyond u32::MAX, so the
\* range check of these types never fails on them
parse_u64(s) ==
    IF IsUnsignedNumeral(s) THEN Some(DecimalValue(UnsignedDigits(s))) ELSE None

\* Option::and_then(|s| s.parse().ok()) on the result of env::var(..).ok()
AndThenParse_u16(envv) == IF IsSome(envv) THEN parse_u16(Unwrap(envv)) ELSE None

AndThenParse_u64(envv) == IF IsSome(envv) THEN parse_u64(Unwrap(envv)) ELSE None

Option_or_swapped(a, b) == IF IsSome(b) THEN b ELSE a

\* Option::or
Option_or(a, b) == IF IsSome(a) THEN a ELSE b

\* Option::unwrap_or
Option_unwrap_or(a, d) == IF IsSome(a) THEN Unwrap(a) ELSE d

\* #[serde(default = "default_port")] pub port: u16
ConfigFile_port(fc) == Option_unwrap_or(fc.port, default_port)

LoadPort(fc, e) == Option_unwrap_or(AndThenParse_u16(e.PORT), ConfigFile_port(fc))

LoadRefreshIntervalSecs(fc, e) ==
    LET v == Option_or(AndThenParse_u64(e.REFRESH_INTERVAL_SECS),
                       fc.refresh_interval_secs)
    IN  IF IsSome(v) THEN [secs |-> Unwrap(v)] ELSE default_refresh_interval_secs

LoadRequestBodyLimit(fc, e) ==
    Option_or(AndThenParse_u64(e.REQUEST_BODY_LIMIT), fc.request_body_limit)

ConfigErr(msg) ==
    [ok |-> FALSE, error |-> msg, providers |-> <<>>, api_keys |-> <<>>,
     load_balancing |-> "round_robin",
     fallback_models |-> [claude |-> None, openai |-> None, gemini |-> None],
     port |-> default_port, refresh_interval_secs |-> default_refresh_interval_secs,
     request_body_limit |-> None]

from_file_and_env(fc, e) ==
    LET providers == IF fc.providers # <<>> THEN FileProviders(fc)
                     ELSE <<DefaultProvider(fc, e)>>
        api_keys  == Deduplicate(CollectApiKeys(fc, e))
    IN  IF fc.providers = <<>> /\ DefaultProviderError(fc, e) # ""
        THEN ConfigErr(DefaultProviderError(fc, e))
        ELSE IF ApiKeysRejected(api_keys)
        THEN ConfigErr("At least one API key is required")
        ELSE [ok |-> TRUE, error |-> "", providers |-> providers,
              api_keys |-> api_keys, load_balancing |-> fc.load_balancing,
              fallback_models |-> fc.fallback_models,
              port |-> LoadPort(fc, e),
              refresh_interval_secs |-> LoadRefreshIntervalSecs(fc, e),
              request_body_limit |-> LoadRequestBodyLimit(fc, e)]

\* Config::load: the file must exist and parse before from_file_and_env runs
Config_load(file, e) ==
    IF ~IsSome(file) THEN ConfigErr("Config file not found")
    ELSE from_file_and_env(Unwrap(file), e)

----------------------------------------------------------------------------
(* Inputs of configuration loading *)

UrlPlain == <<"h">>
UrlSlash == <<"h", "/">>
UrlFull  == <<"h">> \o OAuthTokenPath

ProviderNames == {"p1", "p2"}
ProviderUrls == {UrlSlash, UrlFull}
ProviderWeights == 0..2

ProviderConfigs ==
    [name : ProviderNames, uaa_token_url : ProviderUrls,
     uaa_client_id : {"id"}, uaa_client_secret : {"secret"},
     genai_api_url : {"api"}, resource_group : {None},
     weight : ProviderWeights, enabled : BOOLEAN]

NoCredentials ==
    [uaa_token_url |-> None, uaa_client_id |-> None, uaa_client_secret |-> None,
     aicore_api_url |-> None, api_key |-> None]

FullCredentials ==
    [uaa_token_url |-> Some(UrlPlain), uaa_client_id |-> Some("id"),
     uaa_client_secret |-> Some("secret"), aicore_api_url |-> Some("api"),
     api_key |-> None]

\* FallbackModels::default()
NoFallbackModels == [claude |-> None, openai |-> None, gemini |-> None]

BaseFile ==
    [credentials |-> None,
     providers |-> <<[name |-> "p1", uaa_token_url |-> UrlFull, uaa_client_id |-> "id",
                      uaa_client_secret |-> "secret", genai_api_url |-> "api",
                      resource_group |-> None, weight |-> 1, enabled |-> TRUE]>>,
     resource_group |-> None,
     api_keys |-> << <<"a">> >>,
     load_balancing |-> "round_robin",
     fallback_models |-> NoFallbackModels,
     port |-> None, refresh_interval_secs |-> None, request_body_limit |-> None]

BaseEnv ==
    [UAA_TOKEN_URL |-> None, UAA_CLIENT_ID |-> None, UAA_CLIENT_SECRET |-> None,
     GENAI_API_URL |-> None, RESOURCE_GROUP |-> None, API_KEY |-> None, API_KEYS |-> None,
     PORT |-> None, REFRESH_INTERVAL_SECS |-> None, REQUEST_BODY_LIMIT |-> None]

FullEnv ==
    [BaseEnv EXCEPT !.UAA_TOKEN_URL = Some(UrlSlash), !.UAA_CLIENT_ID = Some("env-id"),
                    !.UAA_CLIENT_SECRET = Some("env-secret"),
                    !.GENAI_API_URL = Some("env-api"), !.RESOURCE_GROUP = Some("rg-env")]

Opt(S) == {None} \cup {Some(x) : x \in S}

KeyValues == {<<>>, <<"a">>, <<"b">>}
EnvChars == {"a", "b", ",", " "}

FileKeyLists == SeqsUpTo(KeyValues, MaxFileKeys)
ApiKeysEnvValues == SeqsUpTo(EnvChars, MaxEnvLen)
ProviderLists == SeqsUpTo(ProviderConfigs, MaxProviders)

\* the four API-key sources vary, one valid provider in the file
KeyInputs ==
    \E fk \in FileKeyLists,
       cr \in Opt({[NoCredentials EXCEPT !.api_key = lk] : lk \in Opt({<<"a">>, <<"b">>})}),
       k  \in Opt({<<>>, <<"a">>}),
       ks \in Opt(ApiKeysEnvValues) :
        /\ file_config = Some([BaseFile EXCEPT !.api_keys = fk, !.credentials = cr])
        /\ env = [BaseEnv EXCEPT !.API_KEY = k, !.API_KEYS = ks]

\* the providers array of the file varies
ProviderInputs ==
    \E ps \in ProviderLists,
       fk \in {<<>>, << <<"a">> >>},
       cr \in {None, Some(FullCredentials)},
       ev \in {BaseEnv, FullEnv} :
        /\ file_config = Some([BaseFile EXCEPT !.providers = ps, !.api_keys = fk,
                                               !.credentials = cr])
        /\ env = ev

\* no providers array: legacy credentials and environment vary
LegacyInputs ==
    \E fk \in {<<>>, << <<"a">> >>},
       rg \in Opt({"rg-file"}),
       cr \in Opt([uaa_token_url : Opt({UrlPlain}), uaa_client_id : Opt({"id"}),
                   uaa_client_secret : Opt({"secret"}), aicore_api_url : Opt({"api"}),
                   api_key : Opt({<<"b">>})]),
       eu \in Opt({UrlSlash}), ei \in Opt({"env-id"}), es \in Opt({"env-secret"}),
       ea \in Opt({"env-api"}), er \in Opt({"rg-env"}) :
        /\ file_config = Some([BaseFile EXCEPT !.providers = <<>>, !.api_keys = fk,
                                               !.resource_group = rg, !.credentials = cr])
        /\ env = [BaseEnv EXCEPT !.UAA_TOKEN_URL = eu, !.UAA_CLIENT_ID = ei,
                                 !.UAA_CLIENT_SECRET = es, !.GENAI_API_URL = ea,
                                 !.RESOURCE_GROUP = er]

----------------------------------------------------------------------------
(* Specification of configuration loading: from_file_and_env on every input *)

NormalizeIdle == n_url = <<>> /\ n_out = <<>> /\ n_pc = "idle"

BalancerIdle == b_pc = <<>> /\ b_order = <<>>

TokenIdle ==
    /\ t_now = 0 /\ t_cache = <<>> /\ t_inflight = <<>>
    /\ t_pc = <<>> /\ t_provider = <<>> /\ t_result = <<>>

DispatchIdle ==
    /\ d_served = 0 /\ d_prev = <<>>
    /\ d_pc = <<>> /\ d_order = <<>> /\ d_candidates = <<>> /\ d_idx = <<>>
    /\ d_contacted = <<>> /\ d_outcomes = <<>> /\ d_result = <<>>

FallbackIdle == f_prefix = "" /\ f_out = <<>> /\ f_pc = "idle"

NoArgs == [subcommand |-> None, port |-> None]

CliIdle ==
    /\ args = NoArgs
    /\ exit_error = ""
    /\ load_balancer = None
    /\ registry_started = FALSE
    /\ listener_bound = FALSE

InitLoad ==
    /\ (KeyInputs \/ ProviderInputs \/ LegacyInputs)
    /\ pc = "load"
    /\ config = ConfigErr("")
    /\ CliIdle
    /\ NormalizeIdle
    /\ BalancerIdle
    /\ TokenIdle
    /\ DispatchIdle
    /\ FallbackIdle

ConfigLoad ==
    /\ pc = "load"
    /\ config' = from_file_and_env(Unwrap(file_config), env)
    /\ pc' = "loaded"
    /\ UNCHANGED <<file_config, env, args, exit_error, load_balancer,
                   registry_started, listener_bound, non_cli_vars>>

SpecLoad == InitLoad /\ [][ConfigLoad]_vars

----------------------------------------------------------------------------
(* Config::get_fallback_model *)

\* crate::constants::models
CLAUDE_PREFIX == "claude"
GPT_PREFIX == "gpt"
TEXT_PREFIX == "text"
GEMINI_PREFIX == "gemini"

get_fallback_model_gpt_only(cfg, prefix) ==
    IF prefix = CLAUDE_PREFIX THEN cfg.fallback_models.claude
    ELSE IF prefix = GPT_PREFIX THEN cfg.fallback_models.openai
    ELSE IF prefix = GEMINI_PREFIX THEN cfg.fallback_models.gemini
    ELSE None

get_fallback_model(cfg, prefix) ==
    IF prefix = CLAUDE_PREFIX THEN cfg.fallback_models.claude
    ELSE IF prefix = GPT_PREFIX \/ prefix = TEXT_PREFIX THEN cfg.fallback_models.openai
    ELSE IF prefix = GEMINI_PREFIX THEN cfg.fallback_models.gemini
    ELSE None

FallbackNames == {"claude-sonnet-4-5", "gpt-4o"}

FallbackTables ==
    [claude : Opt(FallbackNames), openai : Opt(FallbackNames), gemini : Opt(FallbackNames)]

Prefixes == {"claude", "gpt", "text", "gemini", "", "Claude", "claude-sonnet", "llama"}

InitFallback ==
    /\ \E fm \in FallbackTables :
          file_config = Some([BaseFile EXCEPT !.fallback_models = fm])
    /\ env = BaseEnv
    /\ pc = "load"
    /\ config = ConfigErr("")
    /\ f_prefix \in Prefixes
    /\ f_out = <<>>
    /\ f_pc = "call"
    /\ CliIdle
    /\ NormalizeIdle
    /\ BalancerIdle
    /\ TokenIdle
    /\ DispatchIdle

GetFallbackModel ==
    /\ pc = "loaded" /\ config.ok
    /\ f_pc = "call"
    /\ f_out' = get_fallback_model(config, f_prefix)
    /\ f_pc' = "done"
    /\ UNCHANGED <<f_prefix, n_vars, cli_vars, b_vars, t_vars, d_vars>>

NextFallback == ConfigLoad \/ GetFallbackModel

SpecFallback == InitFallback /\ [][NextFallback]_vars

----------------------------------------------------------------------------
(* Specification of normalize_oauth_token_url on every input *)

InitNormalize ==
    /\ n_url \in UrlInputs
    /\ n_out = <<>>
    /\ n_pc = "call"
    /\ file_config = None /\ env = BaseEnv /\ pc = "idle" /\ config = ConfigErr("")
    /\ CliIdle
    /\ BalancerIdle
    /\ TokenIdle
    /\ DispatchIdle
    /\ FallbackIdle

Normalize ==
    /\ n_pc = "call"
    /\ n_out' = normalize_oauth_token_url(n_url)
    /\ n_pc' = "done"
    /\ UNCHANGED <<n_url, non_n_vars>>

\* the result of the first call is normalized once more
NormalizeAgain ==
    /\ n_pc = "done"
    /\ n_url' = n_out
    /\ n_out' = normalize_oauth_token_url(n_out)
    /\ n_pc' = "twice"
    /\ UNCHANGED non_n_vars

NextNormalize == Normalize \/ NormalizeAgain

SpecNormalize == InitNormalize /\ [][NextNormalize]_vars

----------------------------------------------------------------------------
(* Load balancer construction (balancer.rs), as cli.rs uses it *)

RECURSIVE SelectEnabled(_)
SelectEnabled(providers) ==
    IF providers = <<>> THEN <<>>
    ELSE IF Head(providers).enabled
    THEN <<Head(providers)>> \o SelectEnabled(Tail(providers))
    ELSE SelectEnabled(Tail(providers))

\* LoadBalancer::new(providers, strategy): disabled providers are omitted
LoadBalancer_new(providers, strategy) ==
    [providers |-> SelectEnabled(providers), strategy |-> strategy, counter |-> 0]

\* LoadBalancer::is_empty: no enabled provider exists
LoadBalancer_is_empty(lb) == lb.providers = <<>>

----------------------------------------------------------------------------
(* Cli::run and Cli::run_server *)

Subcommands ==
    [name : {"resource-group", "deployments"}, sub : Opt({"list"})]

CliProviderConfigs ==
    {p \in ProviderConfigs : p.weight = 1 /\ p.uaa_token_url = UrlFull}

CliProviderLists == SeqsUpTo(CliProviderConfigs, MaxProviders)

\* values of PORT, REFRESH_INTERVAL_SECS and REQUEST_BODY_LIMIT
EnvNumerals ==
    { <<"8", "0">>, <<"+", "8", "0">>, <<"8", "a">>, <<>>, <<"7", "0", "0", "0", "0">> }

EnvSmallNumerals == { <<"6", "0">>, <<"6", "0", "s">>, <<"-", "1">> }

\* the config file and the providers in it vary
CliProviderInputs ==
    /\ \/ file_config = None
       \/ \E ps \in CliProviderLists,
             fk \in {<<>>, << <<"a">> >>},
             cr \in {None, Some(FullCredentials)},
             st \in {"round_robin", "fallback"} :
              file_config = Some([BaseFile EXCEPT !.providers = ps, !.api_keys = fk,
                                                  !.credentials = cr,
                                                  !.load_balancing = st])
    /\ env = BaseEnv
    /\ args \in [subcommand : Opt(Subcommands), port : {None}]

\* port, refresh interval and body limit vary in file, environment and --port
CliNumericInputs ==
    /\ \E fp \in Opt({3000}), fr \in Opt({30}), fb \in Opt({1024}) :
          file_config = Some([BaseFile EXCEPT !.port = fp, !.refresh_interval_secs = fr,
                                              !.request_body_limit = fb])
    /\ \E ep \in Opt(EnvNumerals), er \in Opt(EnvSmallNumerals),
          eb \in Opt(EnvSmallNumerals) :
          env = [BaseEnv EXCEPT !.PORT = ep, !.REFRESH_INTERVAL_SECS = er,
                                !.REQUEST_BODY_LIMIT = eb]
    /\ args \in [subcommand : Opt(Subcommands), port : Opt({9000})]

Init ==
    /\ (CliProviderInputs \/ CliNumericInputs)
    /\ pc = "start"
    /\ config = ConfigErr("")
    /\ exit_error = ""
    /\ load_balancer = None
    /\ registry_started = FALSE
    /\ listener_bound = FALSE
    /\ NormalizeIdle
    /\ BalancerIdle
    /\ TokenIdle
    /\ DispatchIdle
    /\ FallbackIdle

\* the subcommand is not looked at: the server always starts
Run_LoadConfigIgnoringCommand ==
    /\ pc = "start"
    /\ config' = Config_load(file_config, env)
    /\ IF ~config'.ok
       THEN pc' = "returned" /\ exit_error' = "Failed to load configuration"
       ELSE pc' = "run_server" /\ UNCHANGED exit_error
    /\ UNCHANGED <<file_config, env, args, load_balancer, registry_started,
                   listener_bound, non_cli_vars>>

\* let config = Config::load(config_path).context("Failed to load configuration")?;
Run_LoadConfig ==
    /\ pc = "start"
    /\ config' = Config_load(file_config, env)
    /\ IF ~config'.ok
       THEN pc' = "returned" /\ exit_error' = "Failed to load configuration"
       ELSE /\ pc' = IF IsSome(args.subcommand) THEN "command" ELSE "run_server"
            /\ UNCHANGED exit_error
    /\ UNCHANGED <<file_config, env, args, load_balancer, registry_started,
                   listener_bound, non_cli_vars>>

\* if let Some(subcommand) = matches.subcommand() { match subcommand {..} }
Run_Command ==
    /\ pc = "command"
    /\ IF Unwrap(args.subcommand).sub = Some("list")
       THEN \* return handler.list_resource_groups() / list_deployments(..)
            /\ pc' = "returned"
            /\ exit_error' \in {"", "command failed"}
       ELSE \* eprintln!(..); std::process::exit(1)
            /\ pc' = "exit_1"
            /\ UNCHANGED exit_error
    /\ UNCHANGED <<file_config, env, args, config, load_balancer, registry_started,
                   listener_bound, non_cli_vars>>

RunServer_CreateUnchecked ==
    /\ pc = "run_server"
    /\ config' = IF IsSome(args.port)
                 THEN [config EXCEPT !.port = Unwrap(args.port)]
                 ELSE config
    /\ load_balancer' = Some(LoadBalancer_new(config'.providers, config'.load_balancing))
    /\ pc' = "registry_start"
    /\ UNCHANGED <<file_config, env, args, exit_error, registry_started,
                   listener_bound, non_cli_vars>>

\* the --port override, TokenManager::new, LoadBalancer::new, the is_empty check
RunServer_Create ==
    /\ pc = "run_server"
    /\ config' = IF IsSome(args.port)
                 THEN [config EXCEPT !.port = Unwrap(args.port)]
                 ELSE config
    /\ load_balancer' = Some(LoadBalancer_new(config'.providers, config'.load_balancing))
    /\ IF LoadBalancer_is_empty(Unwrap(load_balancer'))
       THEN pc' = "returned" /\ exit_error' = "No enabled providers configured"
       ELSE pc' = "registry_start" /\ UNCHANGED exit_error
    /\ UNCHANGED <<file_config, env, args, registry_started,
                   listener_bound, non_cli_vars>>

\* the result of ModelRegistry::start is ignored
RunServer_RegistryStartUnchecked ==
    /\ pc = "registry_start"
    /\ \E ok \in BOOLEAN : registry_started' = ok
    /\ pc' = "bind"
    /\ UNCHANGED <<file_config, env, args, config, exit_error, load_balancer,
                   listener_bound, non_cli_vars>>

\* model_registry.start().await.context("Failed to start model registry")?
RunServer_RegistryStart ==
    /\ pc = "registry_start"
    /\ \E ok \in BOOLEAN :
        IF ok
        THEN registry_started' = TRUE /\ pc' = "bind" /\ UNCHANGED exit_error
        ELSE /\ pc' = "returned" /\ exit_error' = "Failed to start model registry"
             /\ UNCHANGED registry_started
    /\ UNCHANGED <<file_config, env, args, config, load_balancer, listener_bound, non_cli_vars>>

\* TcpListener::bind(addr).await.context("Failed to bind to address")?
RunServer_Bind ==
    /\ pc = "bind"
    /\ \E ok \in BOOLEAN :
        IF ok
        THEN listener_bound' = TRUE /\ pc' = "serving" /\ UNCHANGED exit_error
        ELSE /\ pc' = "returned" /\ exit_error' = "Failed to bind to address"
             /\ UNCHANGED listener_bound
    /\ UNCHANGED <<file_config, env, args, config, load_balancer, registry_started, non_cli_vars>>

\* axum::serve(listener, app).await.context("Server error")?; Ok(())
RunServer_Serve ==
    /\ pc = "serving"
    /\ pc' = "returned"
    /\ exit_error' \in {"", "Server error"}
    /\ UNCHANGED <<file_config, env, args, config, load_balancer, registry_started,
                   listener_bound, non_cli_vars>>

Next ==
    \/ Run_LoadConfig
    \/ Run_Command
    \/ RunServer_Create
    \/ RunServer_RegistryStart
    \/ RunServer_Bind
    \/ RunServer_Serve

Spec == Init /\ [][Next]_vars

----------------------------------------------------------------------------
(* Load balancer selection (spec.md 4.3) *)

\* weighted expansion: each provider appears `weight` times, in provider order
RECURSIVE ExpandWeighted(_)
ExpandWeighted(providers) ==
    IF providers = <<>> THEN <<>>
    ELSE [j \in 1..Head(providers).weight |-> Head(providers).name]
         \o ExpandWeighted(Tail(providers))

\* the sequence rotated to start at (0-based) index k
Rotate(s, k) == SubSeq(s, k + 1, Len(s)) \o SubSeq(s, 1, k)

\* duplicates collapsed: each provider appears at most once, first position kept
RECURSIVE CollapseDuplicates(_, _)
CollapseDuplicates(s, seen) ==
    IF s = <<>> THEN <<>>
    ELSE IF Head(s) \in seen THEN CollapseDuplicates(Tail(s), seen)
    ELSE <<Head(s)>> \o CollapseDuplicates(Tail(s), seen \cup {Head(s)})

ProviderNamesOf(providers) == [i \in 1..Len(providers) |-> providers[i].name]

RoundRobinOrder(lb) ==
    LET expanded == ExpandWeighted(lb.providers) IN
    IF expanded = <<>> THEN <<>>
    ELSE CollapseDuplicates(Rotate(expanded, lb.counter % Len(expanded)), {})

select_always_round_robin(lb) ==
    [candidates |-> RoundRobinOrder(lb), counter |-> lb.counter + 1]

select_counter_stuck(lb) ==
    IF lb.strategy = "round_robin"
    THEN [candidates |-> RoundRobinOrder(lb), counter |-> lb.counter]
    ELSE [candidates |-> ProviderNamesOf(lb.providers), counter |-> lb.counter]

\* the ordered candidate list for one request and the counter after it:
\* RoundRobin increments the atomic counter once, Fallback does not consult it
LoadBalancer_select(lb) ==
    IF lb.strategy = "round_robin"
    THEN [candidates |-> RoundRobinOrder(lb), counter |-> lb.counter + 1]
    ELSE [candidates |-> ProviderNamesOf(lb.providers), counter |-> lb.counter]

----------------------------------------------------------------------------
(* Specification of the load balancer under concurrent requests *)

BalancedNames == <<"p1", "p2", "p3", "p4">>

BalancedProvider(i, w, en) ==
    [name |-> BalancedNames[i], uaa_token_url |-> UrlFull, uaa_client_id |-> "id",
     uaa_client_secret |-> "secret", genai_api_url |-> "api",
     resource_group |-> default_resource_group, weight |-> w, enabled |-> en]

LoadedConfig(providers, strategy) ==
    [ok |-> TRUE, error |-> "", providers |-> providers,
     api_keys |-> << <<"a">> >>, load_balancing |-> strategy,
     fallback_models |-> NoFallbackModels,
     port |-> default_port, refresh_interval_secs |-> default_refresh_interval_secs,
     request_body_limit |-> None]

Selections == 1..MaxSelections

InitBalance ==
    /\ \E n \in 1..MaxBalancedProviders, st \in {"round_robin", "fallback"} :
       \E ws \in [1..n -> 1..MaxWeight], en \in [1..n -> BOOLEAN] :
           /\ config = LoadedConfig([i \in 1..n |-> BalancedProvider(i, ws[i], en[i])], st)
           /\ load_balancer = Some(LoadBalancer_new(config.providers, st))
           /\ ~LoadBalancer_is_empty(Unwrap(load_balancer))
    /\ b_pc = [r \in Selections |-> "pending"]
    /\ b_order = [r \in Selections |-> <<>>]
    /\ file_config = None /\ env = BaseEnv /\ args = NoArgs
    /\ pc = "serving" /\ exit_error = ""
    /\ registry_started = TRUE /\ listener_bound = TRUE
    /\ NormalizeIdle
    /\ TokenIdle
    /\ DispatchIdle
    /\ FallbackIdle

\* one request consults the load balancer
Select(r) ==
    /\ b_pc[r] = "pending"
    /\ LET sel == LoadBalancer_select(Unwrap(load_balancer)) IN
        /\ b_order' = [b_order EXCEPT ![r] = sel.candidates]
        /\ load_balancer' = Some([Unwrap(load_balancer) EXCEPT !.counter = sel.counter])
    /\ b_pc' = [b_pc EXCEPT ![r] = "selected"]
    /\ UNCHANGED <<file_config, env, args, pc, config, exit_error,
                   registry_started, listener_bound, n_vars, t_vars, d_vars, f_vars>>

NextBalance == \E r \in Selections : Select(r)

SpecBalance == InitBalance /\ [][NextBalance]_vars

----------------------------------------------------------------------------
(* Token manager: access_token with single-flight refresh (spec.md 4.1) *)

\* safety skew, in clock ticks
Skew == 1

TokenProviders == {"p1", "p2"}
Callers == 1..MaxCallers

NoResult == [status |-> "none", source |-> "none", remaining |-> 0]

CacheAlwaysValid(cell, now) == IsSome(cell)

\* step 1: a token exists and now + skew < expiry
CacheValid(cell, now) == IsSome(cell) /\ now + Skew < Unwrap(cell).expiry

GateNeverBusy(p) == FALSE

\* step 2: a refresh for this provider is already in flight
GateBusy(p) == t_inflight[p]

InitToken ==
    /\ t_now = 0
    /\ t_cache = [p \in TokenProviders |-> None]
    /\ t_inflight = [p \in TokenProviders |-> FALSE]
    /\ t_pc = [c \in Callers |-> "idle"]
    /\ t_provider = [c \in Callers |-> "none"]
    /\ t_result = [c \in Callers |-> NoResult]
    /\ file_config = None /\ env = BaseEnv /\ args = NoArgs
    /\ pc = "serving" /\ exit_error = "" /\ config = ConfigErr("")
    /\ load_balancer = None
    /\ registry_started = TRUE /\ listener_bound = TRUE
    /\ NormalizeIdle
    /\ BalancerIdle
    /\ DispatchIdle
    /\ FallbackIdle

non_t_vars == <<n_vars, cli_vars, b_vars, d_vars, f_vars>>

\* time passes
Tick ==
    /\ t_now < MaxTime
    /\ t_now' = t_now + 1
    /\ UNCHANGED <<t_cache, t_inflight, t_pc, t_provider, t_result, non_t_vars>>

\* access_token(provider), up to its first suspension point; a result records
\* the lifetime remaining (expiry - now) at the instant it is handed over
AccessToken_Call(c, p) ==
    /\ t_pc[c] = "idle"
    /\ t_provider' = [t_provider EXCEPT ![c] = p]
    /\ IF CacheValid(t_cache[p], t_now)
       THEN /\ t_pc' = [t_pc EXCEPT ![c] = "done"]
            /\ t_result' = [t_result EXCEPT ![c] =
                   [status |-> "ok", source |-> "cache",
                    remaining |-> Unwrap(t_cache[p]).expiry - t_now]]
            /\ UNCHANGED t_inflight
       ELSE IF GateBusy(p)
       THEN /\ t_pc' = [t_pc EXCEPT ![c] = "waiting"]
            /\ UNCHANGED <<t_result, t_inflight>>
       ELSE /\ t_pc' = [t_pc EXCEPT ![c] = "refreshing"]
            /\ t_inflight' = [t_inflight EXCEPT ![p] = TRUE]
            /\ UNCHANGED t_result
    /\ UNCHANGED <<t_now, t_cache, non_t_vars>>

\* the client-credentials RPC of caller c returns; its result is written to
\* the cell and handed to c and to every waiter of this flight
Refresh_Complete(c) ==
    /\ t_pc[c] = "refreshing"
    /\ LET p == t_provider[c]
           flight == {c} \cup {w \in Callers : t_pc[w] = "waiting" /\ t_provider[w] = p}
       IN  /\ \/ \E expires_in \in 1..MaxExpiresIn :
                   /\ t_cache' = [t_cache EXCEPT ![p] = Some([expiry |-> t_now + expires_in])]
                   /\ t_result' = [w \in Callers |->
                          IF w \in flight
                          THEN [status |-> "ok", source |-> "refresh",
                                remaining |-> expires_in]
                          ELSE t_result[w]]
              \/ /\ UNCHANGED t_cache
                 /\ t_result' = [w \in Callers |->
                          IF w \in flight
                          THEN [status |-> "TokenFetchError", source |-> "refresh",
                                remaining |-> 0]
                          ELSE t_result[w]]
           /\ t_inflight' = [t_inflight EXCEPT ![p] = FALSE]
           /\ t_pc' = [w \in Callers |-> IF w \in flight THEN "done" ELSE t_pc[w]]
    /\ UNCHANGED <<t_now, t_provider, non_t_vars>>

\* the caller has taken its result and may call again
AccessToken_Return(c) ==
    /\ t_pc[c] = "done"
    /\ t_pc' = [t_pc EXCEPT ![c] = "idle"]
    /\ t_result' = [t_result EXCEPT ![c] = NoResult]
    /\ t_provider' = [t_provider EXCEPT ![c] = "none"]
    /\ UNCHANGED <<t_now, t_cache, t_inflight, non_t_vars>>

NextToken ==
    \/ Tick
    \/ \E c \in Callers, p \in TokenProviders : AccessToken_Call(c, p)
    \/ \E c \in Callers : Refresh_Complete(c)
    \/ \E c \in Callers : AccessToken_Return(c)

SpecToken == InitToken /\ [][NextToken]_vars

----------------------------------------------------------------------------
(* Request dispatcher with 429 failover (spec.md 4.4).  Requests share only  *)
(* the load balancer, whose counter is consulted atomically; they are taken  *)
(* one after another, d_prev keeping a summary of the previous one.          *)

UpstreamOutcomes == {"200", "500", "429", "conn_error"}

FailoverOnAnyError(outcome) == outcome # "200"

\* per-candidate failures recovered by advancing to the next candidate
Failover(outcome) == outcome \in {"429", "conn_error", "token_error"}

\* Load Balancer order restricted to providers whose snapshot resolves the model
RECURSIVE Resolving(_, _)
Resolving(order, snapshot) ==
    IF order = <<>> THEN <<>>
    ELSE IF Head(order) \in snapshot
    THEN <<Head(order)>> \o Resolving(Tail(order), snapshot)
    ELSE Resolving(Tail(order), snapshot)

\* gateway error once every candidate has failed: 429 if all returned 429
ExhaustedStatus(outcomes) ==
    IF \A i \in 1..Len(outcomes) : outcomes[i] = "429" THEN "429" ELSE "502"

NoRequest == [first_outcome |-> "none", provider |-> "none"]

InitDispatch ==
    /\ \E n \in 1..MaxDispatchProviders, st \in {"round_robin", "fallback"} :
       \E en \in [1..n -> BOOLEAN] :
           /\ config = LoadedConfig([i \in 1..n |-> BalancedProvider(i, 1, en[i])], st)
           /\ load_balancer = Some(LoadBalancer_new(config.providers, st))
           /\ ~LoadBalancer_is_empty(Unwrap(load_balancer))
    /\ d_served = 0
    /\ d_prev = NoRequest
    /\ d_pc = "idle"
    /\ d_order = <<>>
    /\ d_candidates = <<>>
    /\ d_idx = 0
    /\ d_contacted = <<>>
    /\ d_outcomes = <<>>
    /\ d_result = [status |-> "none", provider |-> "none"]
    /\ file_config = None /\ env = BaseEnv /\ args = NoArgs
    /\ pc = "serving" /\ exit_error = ""
    /\ registry_started = TRUE /\ listener_bound = TRUE
    /\ NormalizeIdle
    /\ BalancerIdle
    /\ TokenIdle
    /\ FallbackIdle

dispatch_frame == <<file_config, env, args, pc, config, exit_error,
                    registry_started, listener_bound, n_vars, b_vars, t_vars, f_vars>>

\* a request arrives: RECEIVED
Dispatch_Receive ==
    /\ d_pc \in {"idle", "done", "failed"}
    /\ d_served < MaxRequests
    /\ d_served' = d_served + 1
    /\ d_prev' = IF d_pc = "idle" THEN NoRequest
                 ELSE [first_outcome |-> IF d_outcomes = <<>> THEN "none" ELSE d_outcomes[1],
                       provider |-> d_result.provider]
    /\ d_pc' = "received"
    /\ d_order' = <<>> /\ d_candidates' = <<>> /\ d_idx' = 0
    /\ d_contacted' = <<>> /\ d_outcomes' = <<>>
    /\ d_result' = [status |-> "none", provider |-> "none"]
    /\ UNCHANGED <<load_balancer, dispatch_frame>>

\* RECEIVED -> AUTHENTICATED, or 401
Dispatch_Authenticate ==
    /\ d_pc = "received"
    /\ \E ok \in BOOLEAN :
        IF ok
        THEN d_pc' = "authenticated" /\ UNCHANGED d_result
        ELSE /\ d_pc' = "failed"
             /\ d_result' = [status |-> "401", provider |-> "gateway"]
    /\ UNCHANGED <<d_served, d_prev, d_order, d_candidates, d_idx, d_contacted,
                   d_outcomes, load_balancer, dispatch_frame>>

\* AUTHENTICATED -> 400 on an unparsable body
Dispatch_BadRequest ==
    /\ d_pc = "authenticated"
    /\ d_pc' = "failed"
    /\ d_result' = [status |-> "400", provider |-> "gateway"]
    /\ UNCHANGED <<d_served, d_prev, d_order, d_candidates, d_idx, d_contacted,
                   d_outcomes, load_balancer, dispatch_frame>>

\* AUTHENTICATED -> MODEL_RESOLVED: candidate list = Load Balancer order
\* restricted to the providers whose snapshot resolves the model; 404 if empty
Dispatch_Resolve ==
    /\ d_pc = "authenticated"
    /\ LET lb  == Unwrap(load_balancer)
           sel == LoadBalancer_select(lb)
       IN  /\ load_balancer' = Some([lb EXCEPT !.counter = sel.counter])
           /\ d_order' = sel.candidates
           /\ \E snapshot \in SUBSET Range(ProviderNamesOf(lb.providers)) :
               LET cands == Resolving(sel.candidates, snapshot) IN
               /\ d_candidates' = cands
               /\ IF cands = <<>>
                  THEN /\ d_pc' = "failed"
                       /\ d_result' = [status |-> "404", provider |-> "gateway"]
                       /\ UNCHANGED d_idx
                  ELSE /\ d_pc' = "candidate"
                       /\ d_idx' = 1
                       /\ UNCHANGED d_result
    /\ UNCHANGED <<d_served, d_prev, d_contacted, d_outcomes, dispatch_frame>>

\* the outcome of the current candidate is recorded; a failover outcome
\* advances to the next candidate or exhausts the list, any other outcome is
\* streamed back to the caller
Settle(outcome) ==
    LET outs == Append(d_outcomes, outcome) IN
    /\ d_outcomes' = outs
    /\ IF ~Failover(outcome)
       THEN /\ d_pc' = "done"
            /\ d_result' = [status |-> outcome, provider |-> d_candidates[d_idx]]
            /\ UNCHANGED d_idx
       ELSE IF d_idx < Len(d_candidates)
       THEN /\ d_pc' = "candidate"
            /\ d_idx' = d_idx + 1
            /\ UNCHANGED d_result
       ELSE /\ d_pc' = "failed"
            /\ d_result' = [status |-> ExhaustedStatus(outs), provider |-> "gateway"]
            /\ UNCHANGED d_idx

\* acquire the access token of the current candidate
Dispatch_AcquireToken ==
    /\ d_pc = "candidate"
    /\ \E ok \in BOOLEAN :
        IF ok
        THEN /\ d_pc' = "sending"
             /\ UNCHANGED <<d_idx, d_outcomes, d_result>>
        ELSE Settle("token_error")
    /\ UNCHANGED <<d_served, d_prev, d_order, d_candidates, d_contacted,
                   load_balancer, dispatch_frame>>

\* send to the current candidate and receive its response or a connection error
Dispatch_Upstream ==
    /\ d_pc = "sending"
    /\ d_contacted' = Append(d_contacted, d_candidates[d_idx])
    /\ \E outcome \in UpstreamOutcomes : Settle(outcome)
    /\ UNCHANGED <<d_served, d_prev, d_order, d_candidates, load_balancer, dispatch_frame>>

NextDispatch ==
    \/ Dispatch_Receive
    \/ Dispatch_Authenticate
    \/ Dispatch_BadRequest
    \/ Dispatch_Resolve
    \/ Dispatch_AcquireToken
    \/ Dispatch_Upstream

SpecDispatch == InitDispatch /\ [][NextDispatch]_vars

----------------------------------------------------------------------------
(* Claims about configuration loading (SpecLoad) *)

\* the keys of the four sources, concatenated in source order
SourceKeys(fc, e) ==
    (IF IsSome(e.API_KEY) THEN <<Unwrap(e.API_KEY)>> ELSE <<>>)
    \o (IF IsSome(e.API_KEYS) THEN ApiKeysEnvEntries(Unwrap(e.API_KEYS)) ELSE <<>>)
    \o fc.api_keys
    \o (IF IsSome(fc.credentials) /\ IsSome(Unwrap(fc.credentials).api_key)
        THEN <<Unwrap(Unwrap(fc.credentials).api_key)>> ELSE <<>>)

FirstIndex(s, x) == CHOOSE i \in 1..Len(s) : s[i] = x /\ \A j \in 1..(i - 1) : s[j] # x

NoDuplicates(s) == \A i, j \in 1..Len(s) : i # j => s[i] # s[j]

Loaded == pc = "loaded"

\* C1: loading fails whenever the API keys collected from the four sources
\* form an empty list; every successfully loaded Config has a non-empty
\* api_keys list.
C1_EmptyApiKeysFatal ==
    Loaded =>
        /\ SourceKeys(Unwrap(file_config), env) = <<>> => ~config.ok
        /\ config.ok => config.api_keys # <<>>

C1_Witness ==
    /\ Loaded
    /\ SourceKeys(Unwrap(file_config), env) = <<>>
    /\ IsSome(env.API_KEYS)
    /\ ~config.ok
    /\ config.error = "At least one API key is required"

\* C3: the loaded api_keys list is the concatenation of the four sources in
\* order with every later duplicate removed: no key twice, every distinct key
\* kept, each key at the position of its first occurrence.
C3_DedupOrderPreserving ==
    Loaded /\ config.ok =>
        LET src == SourceKeys(Unwrap(file_config), env)
            ks  == config.api_keys
        IN  /\ NoDuplicates(ks)
            /\ Range(ks) = Range(src)
            /\ \A i, j \in 1..Len(ks) :
                   i < j => FirstIndex(src, ks[i]) < FirstIndex(src, ks[j])

C3_Witness ==
    /\ Loaded
    /\ config.ok
    /\ Len(config.api_keys) >= 2
    /\ IsSome(env.API_KEY)
    /\ Unwrap(env.API_KEY) \in Range(Unwrap(file_config).api_keys)
    /\ Len(SourceKeys(Unwrap(file_config), env)) > Len(config.api_keys)

\* C4: in every successfully loaded Config no two providers have the same
\* name.
C4_ProviderNamesUnique ==
    Loaded /\ config.ok =>
        \A i, j \in 1..Len(config.providers) :
            i # j => config.providers[i].name # config.providers[j].name

----------------------------------------------------------------------------
(* Claims about normalize_oauth_token_url (SpecNormalize) *)

StripTrailingSlash(s) == IF EndsWith(s, "/") THEN SubSeq(s, 1, Len(s) - 1) ELSE s

\* C10: an input containing "/oauth/token" is returned unchanged; any other
\* input has one trailing "/" removed (if present) and "/oauth/token"
\* appended.
C10_NormalizeResult ==
    n_pc = "done" =>
        n_out = IF Contains(n_url, OAuthTokenPath)
                THEN n_url
                ELSE StripTrailingSlash(n_url) \o OAuthTokenPath

C10_Witness ==
    /\ n_pc = "done"
    /\ ~Contains(n_url, OAuthTokenPath)
    /\ EndsWith(n_url, "/")
    /\ Len(n_out) = Len(n_url) + Len(OAuthTokenPath) - 1

----------------------------------------------------------------------------
(* Claims about server startup (Spec) *)

AnyEnabled(providers) == \E i \in 1..Len(providers) : providers[i].enabled

\* C2: in server mode, with no enabled provider, startup fails with an error
\* before the model registry is started and before the listener is bound;
\* the listening state is never reached without an enabled provider.
C2_NoEnabledProviderFatal ==
    /\ (pc \in {"registry_start", "bind", "serving"} \/ registry_started \/ listener_bound)
           => AnyEnabled(config.providers)
    /\ (pc = "returned" /\ config.ok /\ ~IsSome(args.subcommand)
            /\ ~AnyEnabled(config.providers))
           => /\ exit_error = "No enabled providers configured"
              /\ ~registry_started
              /\ ~listener_bound

C2_Witness ==
    /\ pc = "returned"
    /\ config.ok
    /\ Len(config.providers) >= 1
    /\ ~AnyEnabled(config.providers)
    /\ exit_error = "No enabled providers configured"
    /\ ~registry_started /\ ~listener_bound

----------------------------------------------------------------------------
(* Claims about the load balancer (SpecBalance) *)

Selected == {r \in Selections : b_pc[r] = "selected"}

PrimaryCount(name) == Cardinality({r \in Selected : Head(b_order[r]) = name})

EqualWeightRoundRobin ==
    /\ b_pc # <<>>
    /\ Unwrap(load_balancer).strategy = "round_robin"
    /\ \A i \in 1..Len(Unwrap(load_balancer).providers) :
           Unwrap(load_balancer).providers[i].weight = Unwrap(load_balancer).providers[1].weight

----------------------------------------------------------------------------
(* Claims about the token manager (SpecToken) *)

Refreshing(p) == {c \in Callers : t_pc[c] = "refreshing" /\ t_provider[c] = p}
Waiting(p) == {c \in Callers : t_pc[c] = "waiting" /\ t_provider[c] = p}

AtMostOneRefresh ==
    \A p \in TokenProviders :
        /\ Cardinality(Refreshing(p)) <= 1
        /\ Waiting(p) # {} => Cardinality(Refreshing(p)) = 1

WaitersShareResult ==
    \A w \in Callers :
        (t_pc[w] = "waiting" /\ t_pc'[w] # "waiting") =>
            \E r \in Refreshing(t_provider[w]) :
                /\ t_pc'[r] = "done" /\ t_pc'[w] = "done"
                /\ t_result'[w] = t_result'[r]

\* C6: under any interleaving of concurrent access_token calls for a provider
\* without a valid cached token, at most one refresh RPC to that provider is
\* in flight at any instant; the other callers wait and observe the result of
\* that single refresh.
C6_SingleFlight == [](t_pc # <<>> => AtMostOneRefresh) /\ [][t_pc # <<>> => WaitersShareResult]_vars

C6_Witness ==
    /\ t_pc # <<>>
    /\ \E p \in TokenProviders : Refreshing(p) # {} /\ Waiting(p) # {}

\* C7: a token handed to a caller has expiry strictly later than the instant
\* at which it is handed over; a cached token is returned only while
\* now + skew < expiry.
C7_NeverExpired ==
    t_pc # <<>> =>
        \A c \in Callers :
            (t_pc[c] = "done" /\ t_result[c].status = "ok") =>
                t_result[c].remaining > 0

C7_Witness ==
    /\ t_pc # <<>>
    /\ \E c \in Callers :
        /\ t_pc[c] = "done" /\ t_result[c].status = "ok"
        /\ t_result[c].source = "cache"
        /\ t_now >= 1
        /\ t_result[c].remaining = Skew + 1
        /\ Unwrap(t_cache[t_provider[c]]).expiry = t_now + Skew + 1

----------------------------------------------------------------------------
(* Claims about the request dispatcher (SpecDispatch) *)

Dispatching == d_pc \in {"candidate", "sending", "done", "failed"} /\ d_candidates # <<>>

Position(s, x) == CHOOSE k \in 1..Len(s) : s[k] = x

\* contacted providers are candidates, contacted in candidate-list order, each once
ContactedInOrder ==
    /\ Range(d_contacted) \subseteq Range(d_candidates)
    /\ \A i, j \in 1..Len(d_contacted) :
           i < j => Position(d_candidates, d_contacted[i]) < Position(d_candidates, d_contacted[j])

\* the candidates the dispatcher has moved past
AdvancedPast == {i \in 1..Len(d_outcomes) : i < d_idx \/ d_pc = "failed"}

\* the response of the first candidate answering with a non-429 status is the
\* caller's response, and it is the last provider contacted
FirstAnswerReturned ==
    d_pc = "done" =>
        /\ d_result.status \in {"200", "500"}
        /\ d_result.status = d_outcomes[Len(d_outcomes)]
        /\ d_contacted # <<>>
        /\ d_result.provider = d_contacted[Len(d_contacted)]
        /\ d_result.provider = d_candidates[Len(d_outcomes)]

Gateway429OnlyIfAll429 ==
    (d_pc = "failed" /\ d_result.status = "429") =>
        /\ d_contacted = d_candidates
        /\ Len(d_outcomes) = Len(d_candidates)
        /\ \A i \in 1..Len(d_outcomes) : d_outcomes[i] = "429"

FallbackDispatching == Dispatching /\ Unwrap(load_balancer).strategy = "fallback"

EnabledInConfigOrder == ProviderNamesOf(SelectEnabled(config.providers))

C11_NormalizeIdempotent == n_pc = "twice" => n_out = n_url

C11_Witness ==
    /\ n_pc = "twice"
    /\ n_url = UrlSlash \o Tail(OAuthTokenPath)
    /\ n_out = n_url

\* C12: in every successfully loaded Config each provider's uaa_token_url
\* contains "/oauth/token", whether the provider comes from the providers
\* array, from the legacy credentials or from UAA_TOKEN_URL.
C12_TokenUrlsNormalized ==
    (Loaded /\ config.ok) =>
        \A i \in 1..Len(config.providers) :
            Contains(config.providers[i].uaa_token_url, OAuthTokenPath)

C12_Witness ==
    /\ Loaded /\ config.ok
    /\ env.UAA_TOKEN_URL = Some(UrlSlash)
    /\ IsSome(Unwrap(file_config).credentials)
    /\ Unwrap(Unwrap(file_config).credentials).uaa_token_url = Some(UrlPlain)
    /\ Len(config.providers) = 1
    /\ config.providers[1].uaa_token_url = UrlSlash \o Tail(OAuthTokenPath)

LegacyFields ==
    << <<"uaa_token_url", "UAA_TOKEN_URL">>, <<"uaa_client_id", "UAA_CLIENT_ID">>,
       <<"uaa_client_secret", "UAA_CLIENT_SECRET">>, <<"aicore_api_url", "GENAI_API_URL">> >>

InFile(fc, field) == IsSome(fc.credentials) /\ IsSome(Unwrap(fc.credentials)[field])

Available(fc, e, f) == IsSome(e[f[2]]) \/ InFile(fc, f[1])

AllAvailable(fc, e) == \A k \in 1..Len(LegacyFields) : Available(fc, e, LegacyFields[k])

\* the environment value when set, else the legacy credentials value
Preferred(fc, e, f) ==
    IF IsSome(e[f[2]]) THEN Unwrap(e[f[2]]) ELSE Unwrap(Unwrap(fc.credentials)[f[1]])

FirstMissing(fc, e) ==
    LegacyFields[CHOOSE k \in 1..Len(LegacyFields) :
                    /\ ~Available(fc, e, LegacyFields[k])
                    /\ \A j \in 1..(k - 1) : Available(fc, e, LegacyFields[j])]

RequiredMessage(f) ==
    CASE f[1] = "uaa_token_url" ->
            "uaa_token_url is required in config file or UAA_TOKEN_URL env var"
      [] f[1] = "uaa_client_id" ->
            "uaa_client_id is required in config file or UAA_CLIENT_ID env var"
      [] f[1] = "uaa_client_secret" ->
            "uaa_client_secret is required in config file or UAA_CLIENT_SECRET env var"
      [] f[1] = "aicore_api_url" ->
            "aicore_api_url is required in config file or GENAI_API_URL env var"

OneDefaultProvider(fc, e) ==
    /\ config.ok
    /\ Len(config.providers) = 1
    /\ config.providers[1].name = "default"
    /\ config.providers[1].weight = 1
    /\ config.providers[1].enabled
    /\ config.providers[1].uaa_token_url =
           normalize_oauth_token_url(Preferred(fc, e, LegacyFields[1]))
    /\ config.providers[1].uaa_client_id = Preferred(fc, e, LegacyFields[2])
    /\ config.providers[1].uaa_client_secret = Preferred(fc, e, LegacyFields[3])
    /\ config.providers[1].genai_api_url = Preferred(fc, e, LegacyFields[4])

NoFileProviders == Loaded /\ Unwrap(file_config).providers = <<>>

\* C13 (as stated): with no providers in the file, loading succeeds with the
\* single provider "default" (weight 1, enabled, environment values taking
\* precedence) if and only if all four fields are available; a field
\* available from neither source gives an error naming it and no Config.
C13_DefaultProviderIffFields ==
    NoFileProviders =>
        LET fc == Unwrap(file_config) IN
        /\ config.ok <=> AllAvailable(fc, env)
        /\ config.ok => OneDefaultProvider(fc, env)
        /\ ~AllAvailable(fc, env) =>
               ~config.ok /\ config.error = RequiredMessage(FirstMissing(fc, env))

\* C13 (amended): with no providers in the file, loading succeeds with the
\* single provider "default" if and only if all four fields are available
\* and at least one API key is configured; with a field missing the error
\* names the first missing field, and with all fields present but no API
\* key the error is the API-key error.
C13_DefaultProviderIffFieldsAndKey ==
    NoFileProviders =>
        LET fc == Unwrap(file_config) IN
        /\ config.ok <=> (AllAvailable(fc, env) /\ SourceKeys(fc, env) # <<>>)
        /\ config.ok => OneDefaultProvider(fc, env)
        /\ ~AllAvailable(fc, env) =>
               ~config.ok /\ config.error = RequiredMessage(FirstMissing(fc, env))
        /\ (AllAvailable(fc, env) /\ SourceKeys(fc, env) = <<>>) =>
               ~config.ok /\ config.error = "At least one API key is required"

C13_Witness ==
    /\ NoFileProviders
    /\ config.ok
    /\ env.UAA_CLIENT_ID = Some("env-id")
    /\ InFile(Unwrap(file_config), "uaa_client_id")
    /\ env.UAA_CLIENT_SECRET = None
    /\ config.providers[1].uaa_client_id = "env-id"
    /\ config.providers[1].uaa_client_secret = "secret"

\* C14: when the providers array of the file is non-empty, Config.providers
\* has its length and order, every entry keeps its name, weight, enabled flag
\* and own credentials (disabled entries are kept), and no "default" provider
\* is added, whatever the legacy credentials and the environment hold.
C14_FileProvidersPreserved ==
    (Loaded /\ config.ok /\ Unwrap(file_config).providers # <<>>) =>
        LET ps == Unwrap(file_config).providers IN
        /\ Len(config.providers) = Len(ps)
        /\ \A i \in 1..Len(ps) :
               /\ config.providers[i].name = ps[i].name
               /\ config.providers[i].weight = ps[i].weight
               /\ config.providers[i].enabled = ps[i].enabled
               /\ config.providers[i].uaa_client_id = ps[i].uaa_client_id
               /\ config.providers[i].uaa_client_secret = ps[i].uaa_client_secret
               /\ config.providers[i].genai_api_url = ps[i].genai_api_url
               /\ config.providers[i].uaa_token_url =
                      normalize_oauth_token_url(ps[i].uaa_token_url)

C14_Witness ==
    /\ Loaded /\ config.ok
    /\ env = FullEnv
    /\ Unwrap(file_config).credentials = Some(FullCredentials)
    /\ Len(Unwrap(file_config).providers) = 2
    /\ Len(config.providers) = 2
    /\ config.providers[1].name = "p2" /\ ~config.providers[1].enabled
    /\ config.providers[1].weight = 2
    /\ config.providers[2].name = "p1" /\ config.providers[2].enabled

\* C15: every provider of a successfully loaded Config has a weight of at
\* least 1.
C15_WeightAtLeastOne ==
    (Loaded /\ config.ok) =>
        \A i \in 1..Len(config.providers) : config.providers[i].weight >= 1

\* C16: get_fallback_model gives fallback_models.claude for prefix "claude",
\* fallback_models.openai for prefixes "gpt" and "text", fallback_models.gemini
\* for prefix "gemini", and None for any other prefix or when the family's
\* fallback is not configured.
C16_FallbackModelByPrefix ==
    f_pc = "done" =>
        LET fm == Unwrap(file_config).fallback_models IN
        /\ f_prefix = "claude" => f_out = fm.claude
        /\ f_prefix \in {"gpt", "text"} => f_out = fm.openai
        /\ f_prefix = "gemini" => f_out = fm.gemini
        /\ f_prefix \notin {"claude", "gpt", "text", "gemini"} => f_out = None

C16_Witness ==
    /\ f_pc = "done"
    /\ f_prefix = "text"
    /\ Unwrap(file_config).fallback_models.openai = Some("gpt-4o")
    /\ Unwrap(file_config).fallback_models.claude = None
    /\ f_out = Some("gpt-4o")

InRunServer == pc \in {"run_server", "registry_start", "bind", "serving"}

ServerTouched == InRunServer \/ IsSome(load_balancer) \/ registry_started \/ listener_bound

Terminated == pc \in {"returned", "exit_1"}

HandlerReturned ==
    /\ pc = "returned" /\ config.ok
    /\ Unwrap(args.subcommand).sub = Some("list")
    /\ exit_error \in {"", "command failed"}

ExitedUnknownSubcommand ==
    /\ pc = "exit_1" /\ config.ok
    /\ Unwrap(args.subcommand).sub # Some("list")

\* C17 (as stated): whenever a subcommand is given, Cli::run either runs the
\* matching handler and returns its result or exits with status 1 for an
\* unknown subcommand, and run_server is reached only when no subcommand is
\* given.
C17_CommandRunsHandlerOrExits ==
    IsSome(args.subcommand) =>
        /\ ~ServerTouched
        /\ Terminated => (HandlerReturned \/ ExitedUnknownSubcommand)

\* C17 (amended): whenever a subcommand is given, Cli::run first loads the
\* configuration and returns the load error if that fails; otherwise it
\* runs the matching handler and returns its result or exits with status 1
\* for an unknown subcommand.  run_server is reached only when no subcommand
\* is given.
C17_CommandNeverStartsServer ==
    IsSome(args.subcommand) =>
        /\ ~ServerTouched
        /\ Terminated =>
              \/ HandlerReturned
              \/ ExitedUnknownSubcommand
              \/ (pc = "returned" /\ ~config.ok
                      /\ exit_error = "Failed to load configuration")

C17_Witness ==
    /\ args.subcommand = Some([name |-> "deployments", sub |-> Some("list")])
    /\ IsSome(file_config)
    /\ AnyEnabled(config.providers)
    /\ HandlerReturned
    /\ exit_error = ""
    /\ ~ServerTouched

\* the step that follows each step of a server start, or the abort
StartupSuccessor(from, to) ==
    \/ from = "start" /\ to \in {"run_server", "returned"}
    \/ from = "run_server" /\ to \in {"registry_start", "returned"}
    \/ from = "registry_start" /\ to \in {"bind", "returned"}
    \/ from = "bind" /\ to \in {"serving", "returned"}
    \/ from = "serving" /\ to = "returned"

StartupProgress ==
    /\ pc \in {"run_server", "registry_start", "bind", "serving"} => config.ok
    /\ pc \in {"registry_start", "bind", "serving"} =>
           IsSome(load_balancer) /\ AnyEnabled(config.providers)
    /\ registry_started => IsSome(load_balancer) /\ AnyEnabled(config.providers)
    /\ pc \in {"bind", "serving"} => registry_started
    /\ listener_bound => registry_started
    /\ pc = "serving" => listener_bound

StartupAborted ==
    (pc = "returned" /\ ~IsSome(args.subcommand)) =>
        /\ ~config.ok =>
               /\ exit_error = "Failed to load configuration"
               /\ load_balancer = None /\ ~registry_started /\ ~listener_bound
        /\ (config.ok /\ ~AnyEnabled(config.providers)) =>
               /\ exit_error = "No enabled providers configured"
               /\ ~registry_started /\ ~listener_bound
        /\ (config.ok /\ AnyEnabled(config.providers) /\ ~registry_started) =>
               exit_error = "Failed to start model registry" /\ ~listener_bound
        /\ (registry_started /\ ~listener_bound) =>
               exit_error = "Failed to bind to address"

\* C18: a server start goes through configuration load, enabled-provider
\* check, model-registry start, listener bind and serve in this order; a
\* failing step aborts the start with its error and no later step runs; the
\* listener is bound and requests are served only after ModelRegistry::start
\* has returned successfully.
C18_StartupOrder ==
    /\ [](~IsSome(args.subcommand) => (StartupProgress /\ StartupAborted))
    /\ [][(~IsSome(args.subcommand) /\ pc' # pc) => StartupSuccessor(pc, pc')]_vars
    /\ [][(listener_bound' /\ ~listener_bound) => registry_started]_vars

C18_Witness ==
    /\ ~IsSome(args.subcommand)
    /\ pc = "serving"
    /\ registry_started
    /\ listener_bound
    /\ exit_error = ""

\* C19: every key of a successfully loaded Config.api_keys is a non-empty
\* string, whichever source it comes from.
C19_ApiKeysNonEmpty ==
    (Loaded /\ config.ok) =>
        \A i \in 1..Len(config.api_keys) : config.api_keys[i] # <<>>

\* the environment value when it is set and parses, else the file value
EnvThenFile(envv, parsed, filev) ==
    IF IsSome(envv) /\ IsSome(parsed) THEN parsed ELSE filev

ParsedPort == IF IsSome(env.PORT) THEN parse_u16(Unwrap(env.PORT)) ELSE None

ParsedRefreshIntervalSecs ==
    IF IsSome(env.REFRESH_INTERVAL_SECS)
    THEN parse_u64(Unwrap(env.REFRESH_INTERVAL_SECS)) ELSE None

ParsedRequestBodyLimit ==
    IF IsSome(env.REQUEST_BODY_LIMIT)
    THEN parse_u64(Unwrap(env.REQUEST_BODY_LIMIT)) ELSE None

ExpectedPort ==
    LET v == EnvThenFile(env.PORT, ParsedPort, Unwrap(file_config).port)
    IN  IF IsSome(v) THEN Unwrap(v) ELSE DEFAULT_PORT

ExpectedRefreshIntervalSecs ==
    LET v == EnvThenFile(env.REFRESH_INTERVAL_SECS, ParsedRefreshIntervalSecs,
                         Unwrap(file_config).refresh_interval_secs)
    IN  IF IsSome(v) THEN [secs |-> Unwrap(v)] ELSE default_refresh_interval_secs

ExpectedRequestBodyLimit ==
    EnvThenFile(env.REQUEST_BODY_LIMIT, ParsedRequestBodyLimit,
                Unwrap(file_config).request_body_limit)

\* the load of the same file with the three variables unset
LoadWithoutNumericEnv ==
    from_file_and_env(Unwrap(file_config),
                      [env EXCEPT !.PORT = None, !.REFRESH_INTERVAL_SECS = None,
                                  !.REQUEST_BODY_LIMIT = None])

PortOverridden == IsSome(load_balancer) /\ IsSome(args.port)

\* C20: port, refresh_interval_secs and request_body_limit are the value of
\* PORT, REFRESH_INTERVAL_SECS and REQUEST_BODY_LIMIT when the variable is set
\* and parses as a number of the field's type, otherwise the value of the
\* config file, otherwise the default (none for the body limit); a variable
\* that does not parse neither makes loading fail nor replaces the file
\* value; run_server replaces the loaded port by --port when it is given.
C20_NumericSettingsPrecedence ==
    (pc # "start" /\ IsSome(file_config)) =>
        /\ config.ok = LoadWithoutNumericEnv.ok
        /\ config.ok =>
              /\ config.refresh_interval_secs = ExpectedRefreshIntervalSecs
              /\ config.request_body_limit = ExpectedRequestBodyLimit
              /\ config.port = IF PortOverridden THEN Unwrap(args.port) ELSE ExpectedPort

C20_Witness ==
    /\ pc = "serving"
    /\ args.port = Some(9000)
    /\ env.PORT = Some(<<"+", "8", "0">>)
    /\ config.port = 9000
    /\ env.REFRESH_INTERVAL_SECS = Some(<<"6", "0", "s">>)
    /\ Unwrap(file_config).refresh_interval_secs = Some(30)
    /\ config.refresh_interval_secs = [secs |-> 30]
    /\ env.REQUEST_BODY_LIMIT = Some(<<"6", "0">>)
    /\ Unwrap(file_config).request_body_limit = Some(1024)
    /\ config.request_body_limit = Some(60)

====
